---- MODULE Spec2Model ----
(***************************************************************************)
(* The question-list controller of the form builder                        *)
(* (src/src/components/AddQuestionForm.tsx): the React state of            *)
(* AddQuestionForm, the localStorage record "questions", and one action    *)
(* per user event.                                                         *)
(*                                                                         *)
(* Strings the code trims (title, type, helper text) are sequences of      *)
(* one-character strings, so that trim() is computed.  A JS object is a    *)
(* function from its present property names to their values: an absent     *)
(* optional property is a name missing from the DOMAIN.                    *)
(*                                                                         *)
(* An event handler of a React function component reads the state of the   *)
(* render it was created in and queues its setState calls; the queued      *)
(* updates are applied together after the event.  A handler is therefore   *)
(* an operator from that snapshot S to the record of the state variables   *)
(* it sets ("set") and the lists it hands to saveToLocalStorage ("saves"). *)
(***************************************************************************)
EXTENDS Integers, Sequences, FiniteSets, TLC

VARIABLES
    questions,        \* useState<Question[]>(loadFromLocalStorage())
    questionTitle,    \* useState<string>("")
    questionType,     \* useState<string>("")
    isRequired,       \* useState<boolean>(false)
    helperText,       \* useState<string>("")
    additionalFields, \* useState<AdditionalFields>({})
    showForm,         \* useState<boolean>(false)
    loading,          \* useState<boolean>(false)
    error,            \* useState<string | null>(null)
    successMessage,   \* useState<string | null>(null)
    expanded,         \* useState<string | false>(false)
    localStorage,     \* the record under the key "questions"
    uuidCount,        \* number of ids uuidv4 has produced so far
    mounted,          \* FALSE when the first render threw
    steps,            \* number of user events handled in this session
    lastOp            \* history: the event handled last, the id it was given,
                      \* expanded and the buffer before it, and the outcome
                      \* of each setItem

vars == << questions, questionTitle, questionType, isRequired, helperText,
           additionalFields, showForm, loading, error, successMessage,
           expanded, localStorage, uuidCount, mounted, steps, lastOp >>

\* Number of user events of one session that are explored.
MaxSteps == 5

---------------------------------------------------------------------------
(* Values *)

\* expanded === false: no accordion is expanded (ids are positive).
NotExpanded == 0

\* The null of error and successMessage.
Null == "null"

EmptyString == << >>

\* The empty object {}.
EmptyObject == [k \in {} |-> 0]

TEXT == << "t", "e", "x", "t" >>
NUMBER == << "n", "u", "m", "b", "e", "r" >>

MsgRequired == "Please fill in all required fields."
MsgAdded == "Question added successfully."
MsgUpdated == "Question updated successfully."

\* White space String.prototype.trim removes.
WhiteSpace == { " ", "\t", "\n" }

RECURSIVE trimStart(_)
trimStart(s) ==
    IF s # << >> /\ Head(s) \in WhiteSpace THEN trimStart(Tail(s)) ELSE s

RECURSIVE trimEnd(_)
trimEnd(s) ==
    IF s # << >> /\ s[Len(s)] \in WhiteSpace
    THEN trimEnd(SubSeq(s, 1, Len(s) - 1))
    ELSE s

\* Mutant: the string is compared untrimmed.
trimNothing(s) == s

\* String.prototype.trim
trim(s) == trimEnd(trimStart(s))

\* uuidv4(): an identifier never produced before; n ids exist already.
uuidv4(n) == n + 1

---------------------------------------------------------------------------
(* Inputs of the user events *)

TitleInputs == { << >>, << " " >>, << "a" >>, << "b", " " >> }
TypeInputs == { TEXT, NUMBER }
HelperTextInputs == { << >>, << "h" >> }
NumberTypeInputs == { "integer", "decimal" }
NumberInputs == { 0, 10 }

\* The values an input of handleAdditionalFields can give a field.
FieldInputs(field) ==
    IF field = "numberType" THEN NumberTypeInputs ELSE NumberInputs

---------------------------------------------------------------------------
(* Persistence: JSON.stringify, JSON.parse and the localStorage record *)

\* Property order of a Question and of its additionalFields.
QuestionKeys ==
    << "id", "title", "type", "required", "helperText", "additionalFields" >>
AdditionalFieldsKeys == << "numberType", "min", "max" >>

\* The property names of keys that object o has.
present(o, keys) == SelectSeq(keys, LAMBDA k : k \in DOMAIN o)

\* JSON text of an object is the sequence of its members <<name, value text>>;
\* a property that is absent (undefined) is left out.
stringifyAdditionalFields(o) ==
    LET ks == present(o, AdditionalFieldsKeys)
    IN  [i \in 1..Len(ks) |-> << ks[i], o[ks[i]] >>]

stringifyQuestion(q) ==
    LET ks == present(q, QuestionKeys)
    IN  [i \in 1..Len(ks) |->
            << ks[i],
               IF ks[i] = "additionalFields"
               THEN stringifyAdditionalFields(q[ks[i]])
               ELSE q[ks[i]] >>]

\* JSON.stringify(questions)
JSONstringify(qs) == [i \in 1..Len(qs) |-> stringifyQuestion(qs[i])]

parseAdditionalFields(ms) ==
    [k \in { ms[i][1] : i \in DOMAIN ms } |->
        LET i == CHOOSE j \in DOMAIN ms : ms[j][1] = k IN ms[i][2]]

parseQuestion(ms) ==
    [k \in { ms[i][1] : i \in DOMAIN ms } |->
        LET i == CHOOSE j \in DOMAIN ms : ms[j][1] = k
        IN  IF k = "additionalFields"
            THEN parseAdditionalFields(ms[i][2])
            ELSE ms[i][2]]

\* JSON.parse of the text of an array of questions
JSONparse(text) == [i \in 1..Len(text) |-> parseQuestion(text[i])]

\* The record under the key "questions": none, a string that holds JSON, or
\* a string that is no JSON.
NoItem == [kind |-> "absent", text |-> << >>]
Unparseable == [kind |-> "garbage", text |-> << >>]
Item(qs) == [kind |-> "json", text |-> JSONstringify(qs)]

\* saveToLocalStorage(questions): setItem either stores the text or throws
\* (ok = FALSE); the promise it rejects has no handler anywhere.
saveToLocalStorage(store, qs, ok) == IF ok THEN Item(qs) ELSE store

\* loadFromLocalStorage(): JSON.parse throws on a string that is no JSON.
loadFromLocalStorage(store) ==
    IF store.kind = "absent" THEN [threw |-> FALSE, value |-> << >>]
    ELSE IF store.kind = "garbage" THEN [threw |-> TRUE, value |-> << >>]
    ELSE [threw |-> FALSE, value |-> JSONparse(store.text)]

\* A list an earlier session left in the store: one question this program
\* wrote, one without the optional properties.
SavedList ==
    << [id |-> 1, title |-> << "a" >>, type |-> TEXT, required |-> FALSE,
        helperText |-> << "h" >>, additionalFields |-> EmptyObject],
       [id |-> 2, title |-> << "b" >>, type |-> NUMBER, required |-> TRUE] >>

InitialStores == { NoItem, Unparseable, Item(SavedList) }

---------------------------------------------------------------------------
(* The handlers, on the snapshot S of the render they close over *)

Ids(qs) == { qs[i].id : i \in 1..Len(qs) }

MaxId(qs) ==
    IF Len(qs) = 0 THEN 0
    ELSE CHOOSE m \in Ids(qs) : \A n \in Ids(qs) : n <= m

NoUpdate == [set |-> EmptyObject, saves |-> << >>, uuids |-> 0]

\* Mutant: the form is reset whatever the list and the error are.
handleAddQuestionClickAlways(S) ==
    [set |-> [questionTitle |-> EmptyString,
              questionType |-> EmptyString,
              isRequired |-> FALSE,
              helperText |-> EmptyString,
              additionalFields |-> EmptyObject,
              showForm |-> TRUE,
              expanded |-> NotExpanded],
     saves |-> << >>, uuids |-> 0]

handleAddQuestionClick(S) ==
    IF Len(S.questions) # 0 \/ S.error = Null
    THEN [set |-> [questionTitle |-> EmptyString,
                   questionType |-> EmptyString,
                   isRequired |-> FALSE,
                   helperText |-> EmptyString,
                   additionalFields |-> EmptyObject,
                   showForm |-> TRUE,
                   expanded |-> NotExpanded],
          saves |-> << >>, uuids |-> 0]
    ELSE NoUpdate

\* setAdditionalFields((prev) => ({ ...prev, [field]: value }))
handleAdditionalFields(S, field, value) ==
    [set |-> [additionalFields |->
                [k \in DOMAIN S.additionalFields \cup { field } |->
                    IF k = field THEN value ELSE S.additionalFields[k]]],
     saves |-> << >>, uuids |-> 0]

\* Mutant: the list of the render is saved, not the filtered one.
handleDeleteQuestionSavesOld(S, id) ==
    LET updatedQuestions == SelectSeq(S.questions, LAMBDA q : q.id # id)
    IN  [set |-> [questions |-> updatedQuestions],
         saves |-> << S.questions >>, uuids |-> 0]

handleDeleteQuestion(S, id) ==
    LET updatedQuestions == SelectSeq(S.questions, LAMBDA q : q.id # id)
    IN  [set |-> [questions |-> updatedQuestions],
         saves |-> << updatedQuestions >>, uuids |-> 0]

\* Mutant: the helper text of the buffer is not copied.
updatedQuestionKeepsHelperText(q, S) ==
    [k \in DOMAIN q \cup { "title", "type", "required", "additionalFields" } |->
        CASE k = "title" -> S.questionTitle
          [] k = "type" -> S.questionType
          [] k = "required" -> S.isRequired
          [] k = "additionalFields" -> S.additionalFields
          [] OTHER -> q[k]]

\* { ...q, title, type, required, helperText, additionalFields }
updatedQuestion(q, S) ==
    [k \in DOMAIN q \cup { "title", "type", "required", "helperText",
                           "additionalFields" } |->
        CASE k = "title" -> S.questionTitle
          [] k = "type" -> S.questionType
          [] k = "required" -> S.isRequired
          [] k = "helperText" -> S.helperText
          [] k = "additionalFields" -> S.additionalFields
          [] OTHER -> q[k]]

\* Mutant: the id is taken from the length of the list.
newQuestionIdFromLength(S, n) ==
    [id |-> Len(S.questions) + 1,
     title |-> S.questionTitle,
     type |-> S.questionType,
     required |-> S.isRequired,
     helperText |-> S.helperText,
     additionalFields |-> S.additionalFields]

\* Mutant: the required flag of the buffer is not copied.
newQuestionNotRequired(S, n) ==
    [id |-> uuidv4(n),
     title |-> S.questionTitle,
     type |-> S.questionType,
     required |-> FALSE,
     helperText |-> S.helperText,
     additionalFields |-> S.additionalFields]

\* The question of the create branch; n ids exist already.
newQuestion(S, n) ==
    [id |-> uuidv4(n),
     title |-> S.questionTitle,
     type |-> S.questionType,
     required |-> S.isRequired,
     helperText |-> S.helperText,
     additionalFields |-> S.additionalFields]

\* Mutant: the updated question is moved to the end of the list.
updatedQuestionsMovesToEnd(S) ==
    LET hit == SelectSeq(S.questions, LAMBDA q : q.id = S.expanded)
    IN  SelectSeq(S.questions, LAMBDA q : q.id # S.expanded)
            \o [i \in 1..Len(hit) |-> updatedQuestion(hit[i], S)]

\* questions.map((q) => q.id === expanded ? { ...q, ... } : q)
updatedQuestions(S) ==
    [i \in 1..Len(S.questions) |->
        IF S.questions[i].id = S.expanded
        THEN updatedQuestion(S.questions[i], S)
        ELSE S.questions[i]]

\* Mutant: the accordion is not closed after an update.
handleSaveChangesStaysExpanded(S, n) ==
    IF trim(S.questionTitle) = EmptyString \/ trim(S.questionType) = EmptyString
    THEN [set |-> [error |-> MsgRequired], saves |-> << >>, uuids |-> 0]
    ELSE IF S.expanded = NotExpanded
    THEN [set |-> [questions |-> Append(S.questions, newQuestion(S, n)),
                   successMessage |-> MsgAdded,
                   showForm |-> FALSE,
                   expanded |-> NotExpanded],
          saves |-> << S.questions >>, uuids |-> 1]
    ELSE [set |-> [questions |-> updatedQuestions(S),
                   successMessage |-> MsgUpdated,
                   showForm |-> FALSE],
          saves |-> << S.questions >>, uuids |-> 0]

\* n: the number of ids uuidv4 has produced before this call.
handleSaveChanges(S, n) ==
    IF trim(S.questionTitle) = EmptyString \/ trim(S.questionType) = EmptyString
    THEN [set |-> [error |-> MsgRequired], saves |-> << >>, uuids |-> 0]
    ELSE IF S.expanded = NotExpanded
    THEN [set |-> [questions |-> Append(S.questions, newQuestion(S, n)),
                   successMessage |-> MsgAdded,
                   showForm |-> FALSE,
                   expanded |-> NotExpanded],
          saves |-> << S.questions >>, uuids |-> 1]
    ELSE [set |-> [questions |-> updatedQuestions(S),
                   successMessage |-> MsgUpdated,
                   showForm |-> FALSE,
                   expanded |-> NotExpanded],
          saves |-> << S.questions >>, uuids |-> 0]

\* Mutant: the new-question form stays open and the required flag of the
\* buffer stays what it was.
editQuestionKeepsForm(S, id) ==
    IF id \in Ids(S.questions)
    THEN LET questionToEdit ==
                 S.questions[CHOOSE i \in 1..Len(S.questions) :
                     S.questions[i].id = id]
         IN  [set |-> [expanded |-> id,
                       questionTitle |-> questionToEdit.title,
                       questionType |-> questionToEdit.type,
                       helperText |->
                           IF "helperText" \in DOMAIN questionToEdit
                           THEN questionToEdit.helperText
                           ELSE EmptyString,
                       additionalFields |->
                           IF "additionalFields" \in DOMAIN questionToEdit
                           THEN questionToEdit.additionalFields
                           ELSE EmptyObject],
              saves |-> << >>, uuids |-> 0]
    ELSE [set |-> [expanded |-> id], saves |-> << >>, uuids |-> 0]

\* The branch isExpanded of handleAccordionChange: the accordion of id is
\* expanded and the first question with that id is loaded into the buffer.
editQuestion(S, id) ==
    IF id \in Ids(S.questions)
    THEN LET questionToEdit ==
                 S.questions[CHOOSE i \in 1..Len(S.questions) :
                     /\ S.questions[i].id = id
                     /\ \A j \in 1..(i - 1) : S.questions[j].id # id]
         IN  [set |-> [expanded |-> id,
                       questionTitle |-> questionToEdit.title,
                       questionType |-> questionToEdit.type,
                       isRequired |-> questionToEdit.required,
                       helperText |->
                           IF "helperText" \in DOMAIN questionToEdit
                              /\ questionToEdit.helperText # EmptyString
                           THEN questionToEdit.helperText
                           ELSE EmptyString,
                       additionalFields |->
                           IF "additionalFields" \in DOMAIN questionToEdit
                           THEN questionToEdit.additionalFields
                           ELSE EmptyObject,
                       showForm |-> FALSE],
              saves |-> << >>, uuids |-> 0]
    ELSE [set |-> [expanded |-> id], saves |-> << >>, uuids |-> 0]

\* Mutant: expanding a question while another one is expanded first saves
\* the buffer into that other one.
handleAccordionChangeSavesPrevious(S, id, isExpanded, n) ==
    IF isExpanded
    THEN IF S.expanded \in Ids(S.questions) /\ S.expanded # id
         THEN LET saved == handleSaveChanges(S, n)
                  opened == editQuestion(S, id)
              IN  [set |-> [k \in DOMAIN saved.set \cup DOMAIN opened.set |->
                               IF k \in DOMAIN opened.set
                               THEN opened.set[k]
                               ELSE saved.set[k]],
                   saves |-> saved.saves, uuids |-> saved.uuids]
         ELSE editQuestion(S, id)
    ELSE handleSaveChanges(S, n)

handleAccordionChange(S, id, isExpanded, n) ==
    IF isExpanded THEN editQuestion(S, id) ELSE handleSaveChanges(S, n)

\* Mutant: the effect resets the buffer of an empty list but not expanded.
useEffectKeepsExpanded(S) ==
    IF Len(S.questions) = 0
    THEN [S EXCEPT !.questionTitle = EmptyString,
                   !.questionType = EmptyString,
                   !.isRequired = FALSE,
                   !.helperText = EmptyString,
                   !.additionalFields = EmptyObject]
    ELSE S

\* The effect on [questions]: it runs after a render in which questions is
\* a new array.
useEffect(S) ==
    IF Len(S.questions) = 0
    THEN [S EXCEPT !.questionTitle = EmptyString,
                   !.questionType = EmptyString,
                   !.isRequired = FALSE,
                   !.helperText = EmptyString,
                   !.additionalFields = EmptyObject,
                   !.expanded = NotExpanded]
    ELSE S

---------------------------------------------------------------------------
(* The state machine *)

\* The state of the current render, as the handlers see it.
Snapshot ==
    [questions |-> questions, questionTitle |-> questionTitle,
     questionType |-> questionType, isRequired |-> isRequired,
     helperText |-> helperText, additionalFields |-> additionalFields,
     showForm |-> showForm, loading |-> loading, error |-> error,
     successMessage |-> successMessage, expanded |-> expanded]

\* The edit buffer of the state S: the five fields of the form.
Buffer(S) ==
    [title |-> S.questionTitle, type |-> S.questionType,
     required |-> S.isRequired, helperText |-> S.helperText,
     additionalFields |-> S.additionalFields]

\* The queued updates applied to the state S; a later update of a variable
\* replaces an earlier one.
apply(S, set) == [k \in DOMAIN S |-> IF k \in DOMAIN set THEN set[k] ELSE S[k]]

\* The updates of two handlers run in one event, first r1 then r2.
batch(r1, r2) ==
    [set |-> [k \in DOMAIN r1.set \cup DOMAIN r2.set |->
                 IF k \in DOMAIN r2.set THEN r2.set[k] ELSE r1.set[k]],
     saves |-> r1.saves \o r2.saves,
     uuids |-> r1.uuids + r2.uuids]

\* The store after the saves of one event; oks[i] says whether the i-th
\* setItem succeeds.
RECURSIVE writeAll(_, _, _)
writeAll(store, saves, oks) ==
    IF Len(saves) = 0 THEN store
    ELSE writeAll(saveToLocalStorage(store, Head(saves), Head(oks)),
                  Tail(saves), Tail(oks))

\* The first render: useState initialisers, then the effect.
Init ==
    \E store \in InitialStores :
        LET loaded == loadFromLocalStorage(store)
        IN  /\ localStorage = store
            /\ mounted = ~loaded.threw
            /\ questions = loaded.value
            /\ questionTitle = EmptyString
            /\ questionType = EmptyString
            /\ isRequired = FALSE
            /\ helperText = EmptyString
            /\ additionalFields = EmptyObject
            /\ showForm = FALSE
            /\ loading = FALSE
            /\ error = Null
            /\ successMessage = Null
            /\ expanded = NotExpanded
            /\ uuidCount = MaxId(loaded.value)
            /\ steps = 0
            /\ lastOp = [name |-> "init", id |-> NotExpanded,
                         expanded |-> NotExpanded,
                         buffer |-> [title |-> EmptyString,
                                     type |-> EmptyString,
                                     required |-> FALSE,
                                     helperText |-> EmptyString,
                                     additionalFields |-> EmptyObject],
                         writes |-> << >>]

\* One event: the handlers' updates r are applied, the effect runs if
\* questions was set, and the saves reach the store.  n is 1 for an event of
\* the user and 0 for one a timer can fire.
Handle(name, id, r, n) ==
    /\ mounted
    /\ steps + n <= MaxSteps
    /\ \E oks \in [1..Len(r.saves) -> BOOLEAN] :
        LET S1 == apply(Snapshot, r.set)
            S2 == IF "questions" \in DOMAIN r.set THEN useEffect(S1) ELSE S1
        IN  /\ questions' = S2.questions
            /\ questionTitle' = S2.questionTitle
            /\ questionType' = S2.questionType
            /\ isRequired' = S2.isRequired
            /\ helperText' = S2.helperText
            /\ additionalFields' = S2.additionalFields
            /\ showForm' = S2.showForm
            /\ loading' = S2.loading
            /\ error' = S2.error
            /\ successMessage' = S2.successMessage
            /\ expanded' = S2.expanded
            /\ localStorage' = writeAll(localStorage, r.saves, oks)
            /\ uuidCount' = uuidCount + r.uuids
            /\ mounted' = mounted
            /\ steps' = steps + n
            /\ lastOp' = [name |-> name, id |-> id, expanded |-> expanded,
                          buffer |-> Buffer(Snapshot),
                          writes |-> oks]

\* One user event.
Event(name, id, r) == Handle(name, id, r, 1)

Update(set) == [set |-> set, saves |-> << >>, uuids |-> 0]

\* Mutant: a change of type drops the number constraints.
setQuestionTypeClearsFields(S, v) ==
    Update([questionType |-> v, additionalFields |-> EmptyObject])

\* onChange={(e) => setQuestionType(e.target.value)}
setQuestionType(S, v) == Update([questionType |-> v])

\* Mutant: closing the error notification closes the success one too.
dismissErrorClearsBoth(S) == Update([error |-> Null, successMessage |-> Null])

\* onClose={() => setError(null)}
dismissError(S) == Update([error |-> Null])

\* onClose={() => setSuccessMessage(null)}
dismissSuccess(S) == Update([successMessage |-> Null])

\* An edit form is on screen: an expanded accordion of the list, or the
\* new-question accordion.
NewFormShown == showForm \/ Len(questions) = 0
EditFormShown == expanded \in Ids(questions) \/ NewFormShown

\* The "Add Question" button, rendered when !expanded.
AddQuestionClick ==
    /\ expanded = NotExpanded
    /\ Event("handleAddQuestionClick", NotExpanded,
             handleAddQuestionClick(Snapshot))

SetQuestionTitle(v) ==
    /\ EditFormShown
    /\ Event("setQuestionTitle", NotExpanded, Update([questionTitle |-> v]))

SetQuestionType(v) ==
    /\ EditFormShown
    /\ Event("setQuestionType", NotExpanded, setQuestionType(Snapshot, v))

SetIsRequired(v) ==
    /\ EditFormShown
    /\ Event("setIsRequired", NotExpanded, Update([isRequired |-> v]))

SetHelperText(v) ==
    /\ EditFormShown
    /\ Event("setHelperText", NotExpanded, Update([helperText |-> v]))

\* The number fields are rendered when questionType === "number".
ChangeAdditionalField(field, v) ==
    /\ EditFormShown
    /\ questionType = NUMBER
    /\ Event("handleAdditionalFields", NotExpanded,
             handleAdditionalFields(Snapshot, field, v))

\* A click on the summary of the accordion of question id: MUI calls
\* onChange(event, !expanded) of that accordion.
AccordionClick(id) ==
    /\ id \in Ids(questions)
    /\ Event("handleAccordionChange", id,
             handleAccordionChange(Snapshot, id, expanded # id, uuidCount))

\* A click on the summary of the new-question accordion.
NewFormClick ==
    /\ NewFormShown
    /\ Event("handleSaveChanges", NotExpanded,
             handleSaveChanges(Snapshot, uuidCount))

\* deleteQuestion(id): handleDeleteQuestion alone, for any id ever issued.
DeleteQuestion(id) ==
    /\ id \in 1..uuidCount
    /\ Event("handleDeleteQuestion", id, handleDeleteQuestion(Snapshot, id))

\* A click on the delete button of question id.  The button sits inside the
\* AccordionSummary and does not stop propagation, so the click also toggles
\* the accordion: both handlers run on the same snapshot, in one batch.
DeleteClick(id) ==
    /\ id \in Ids(questions)
    /\ Event("deleteClick", id,
             batch(handleDeleteQuestion(Snapshot, id),
                   handleAccordionChange(Snapshot, id, expanded # id, uuidCount)))

\* Snackbar onClose / Alert onClose: the close button, or the timer of
\* autoHideDuration, which needs no event of the user.
DismissError ==
    /\ error # Null
    /\ Handle("dismissError", NotExpanded, dismissError(Snapshot), 0)

DismissSuccess ==
    /\ successMessage # Null
    /\ Handle("dismissSuccess", NotExpanded, dismissSuccess(Snapshot), 0)

Next ==
    \/ AddQuestionClick
    \/ \E v \in TitleInputs : SetQuestionTitle(v)
    \/ \E v \in TypeInputs : SetQuestionType(v)
    \/ \E v \in BOOLEAN : SetIsRequired(v)
    \/ \E v \in HelperTextInputs : SetHelperText(v)
    \/ \E field \in { "numberType", "min", "max" } :
           \E v \in FieldInputs(field) : ChangeAdditionalField(field, v)
    \/ \E id \in Ids(questions) : AccordionClick(id)
    \/ NewFormClick
    \/ \E id \in 1..uuidCount : DeleteQuestion(id)
    \/ \E id \in Ids(questions) : DeleteClick(id)
    \/ DismissError
    \/ DismissSuccess

Spec == Init /\ [][Next]_vars

\* A notification that stays open is closed by its timer after 6 seconds.
FairSpec == Spec /\ WF_vars(DismissError) /\ WF_vars(DismissSuccess)

---------------------------------------------------------------------------
(* Vocabulary of the properties *)

\* The string is empty after trimming (empty or white space only).
Blank(s) == \A i \in 1..Len(s) : s[i] \in WhiteSpace

BufferValid == ~Blank(questionTitle) /\ ~Blank(questionType)

\* op is a commitEdit: handleSaveChanges called from the new-question
\* accordion, or from the collapse of the expanded accordion.
CommitCalled(op) ==
    \/ op.name = "handleSaveChanges"
    \/ op.name = "handleAccordionChange" /\ op.id = op.expanded

\* This step is a commitEdit.
CommitStep == steps' = steps + 1 /\ CommitCalled(lastOp')

\* This step is deleteQuestion(lastOp'.id).
DeleteStep == steps' = steps + 1 /\ lastOp'.name = "handleDeleteQuestion"

\* Every setItem of the event stored its text.
WritesOk(op) == \A i \in 1..Len(op.writes) : op.writes[i]

\* The list load() would return from the store now.
StoredList == loadFromLocalStorage(localStorage).value

\* The ids of the list, in its order.
IdSeq(qs) == [i \in 1..Len(qs) |-> qs[i].id]

\* This step is startNewQuestion.
AddStep == steps' = steps + 1 /\ lastOp'.name = "handleAddQuestionClick"

\* The buffer holds the empty defaults.
DefaultBuffer ==
    [title |-> EmptyString, type |-> EmptyString, required |-> FALSE,
     helperText |-> EmptyString, additionalFields |-> EmptyObject]

BufferFields ==
    [title |-> questionTitle, type |-> questionType, required |-> isRequired,
     helperText |-> helperText, additionalFields |-> additionalFields]

\* Question q carries the five fields of the buffer b.
HasFields(q, b) ==
    /\ { "title", "type", "required", "helperText", "additionalFields" }
           \subseteq DOMAIN q
    /\ q.title = b.title
    /\ q.type = b.type
    /\ q.required = b.required
    /\ q.helperText = b.helperText
    /\ q.additionalFields = b.additionalFields

\* This step is startEditQuestion(lastOp'.id) for a question of the list
\* that is not the expanded one.
EditStep ==
    /\ steps' = steps + 1
    /\ lastOp'.name = "handleAccordionChange"
    /\ lastOp'.id # expanded
    /\ lastOp'.id \in Ids(questions)

\* The question of the list qs with the id.
QuestionOf(qs, id) == qs[CHOOSE i \in 1..Len(qs) : qs[i].id = id]

\* The value of an optional property of q, or its default.
Optional(q, key, default) == IF key \in DOMAIN q THEN q[key] ELSE default

\* This step is startEditQuestion(B) while another question A of the list
\* is expanded and the buffer differs from A (unsaved changes).
SwitchStep ==
    /\ EditStep
    /\ expanded \in Ids(questions)
    /\ ~HasFields(QuestionOf(questions, expanded), BufferFields)

\* This step changes the type of the buffer.
TypeStep == steps' = steps + 1 /\ lastOp'.name = "setQuestionType"

UniqueIds(qs) ==
    \A i, j \in 1..Len(qs) : qs[i].id = qs[j].id => i = j

---------------------------------------------------------------------------
(* The claims *)

\* C1: after every successful commitEdit (buffer title and type non-blank
\* after trimming), create or update, the list held in the store equals the
\* resulting in-memory questions list.  (Stated for an event whose setItem
\* did not throw; after the commit the buffer is what it was before it.)
C1_StoreHoldsCommittedList ==
    (CommitCalled(lastOp) /\ BufferValid /\ WritesOk(lastOp))
        => localStorage = Item(questions)

\* C2: a commitEdit whose buffer title or type is blank after trimming sets
\* the error and leaves questions, the store, expanded, showForm and the
\* success message as they were.
C2_InvalidCommitChangesNothing ==
    [][(CommitStep /\ ~BufferValid)
          => /\ error' # Null
             /\ questions' = questions
             /\ localStorage' = localStorage
             /\ expanded' = expanded
             /\ showForm' = showForm
             /\ successMessage' = successMessage]_vars

\* A commit was refused for a title of white space only, in the accordion
\* of an existing question.
C2_Witness ==
    /\ CommitCalled(lastOp)
    /\ lastOp.expanded \in Ids(questions)
    /\ expanded = lastOp.expanded
    /\ questionTitle = << " " >>
    /\ error = MsgRequired

\* C3: a commitEdit with a valid buffer, create or update, leaves a list
\* with pairwise distinct ids in which every id of the list before the
\* commit is at the index it had.
C3_CommitKeepsIdsUniqueAndInPlace ==
    [][(CommitStep /\ BufferValid)
          => /\ UniqueIds(questions')
             /\ \A i \in 1..Len(questions) :
                    /\ i <= Len(questions')
                    /\ questions'[i].id = questions[i].id]_vars

\* A create from the empty list followed by an update of the question
\* created.
C3_Witness ==
    /\ CommitCalled(lastOp)
    /\ lastOp.expanded = 1
    /\ uuidCount = 1
    /\ localStorage # Item(SavedList)
    /\ successMessage = MsgUpdated
    /\ Ids(questions) = { 1 }

\* C4: a successful commitEdit while nothing is expanded (editTarget "new")
\* appends exactly one question to the list: its id is not in the previous
\* list, its five fields are the buffer's, the previous elements are
\* unchanged.
C4_CreateAppendsBufferAsNewQuestion ==
    [][(CommitStep /\ BufferValid /\ expanded = NotExpanded)
          => /\ Len(questions') = Len(questions) + 1
             /\ SubSeq(questions', 1, Len(questions)) = questions
             /\ LET q == questions'[Len(questions')]
                IN  /\ q.id \notin Ids(questions)
                    /\ HasFields(q, BufferFields)]_vars

\* A number question with a constraint and required set was appended to the
\* list loaded from the store.
C4_Witness ==
    /\ lastOp.name = "handleSaveChanges"
    /\ lastOp.expanded = NotExpanded
    /\ successMessage = MsgAdded
    /\ Len(questions) = 3
    /\ questions[1] = SavedList[1]
    /\ questions[3].id = 3
    /\ questions[3].type = NUMBER
    /\ DOMAIN questions[3].additionalFields # {}

\* C5: a successful commitEdit while the expanded id is in the list
\* replaces the five fields of that question by the buffer's, keeps its id
\* and index and the length of the list, and leaves the others unchanged.
C5_UpdateReplacesFieldsInPlace ==
    [][(CommitStep /\ BufferValid /\ expanded \in Ids(questions))
          => /\ Len(questions') = Len(questions)
             /\ \A i \in 1..Len(questions) :
                    IF questions[i].id = expanded
                    THEN /\ questions'[i].id = questions[i].id
                         /\ HasFields(questions'[i], BufferFields)
                    ELSE questions'[i] = questions[i]]_vars

\* The second question of the loaded list was updated: its required flag
\* and helper text changed, the first question is as loaded.
C5_Witness ==
    /\ CommitCalled(lastOp)
    /\ lastOp.expanded = 2
    /\ successMessage = MsgUpdated
    /\ Len(questions) = 2
    /\ questions[1] = SavedList[1]
    /\ questions[2].id = 2
    /\ questions[2].required = FALSE
    /\ questions[2].helperText = << "h" >>

C7_DeleteOfExpandedClosesEdit ==
    [][(DeleteStep /\ lastOp'.id = expanded /\ expanded \in Ids(questions))
          => /\ expanded' = NotExpanded
             /\ ~showForm']_vars

\* C8: when the write of a commitEdit or of a deleteQuestion fails, the
\* error is set, and the list in memory holds the change (a deleted id is
\* gone from it).
C8_FailedWriteSetsError ==
    ((CommitCalled(lastOp) \/ lastOp.name = "handleDeleteQuestion")
     /\ ~WritesOk(lastOp))
        => /\ error # Null
           /\ lastOp.name = "handleDeleteQuestion"
                  => lastOp.id \notin Ids(questions)

\* C9: with no record under the key, or with content that cannot be parsed,
\* load() gives the empty list and nothing fatal happens: the controller
\* starts with nothing open and questions = [].
C9_LoadOfNothingOrGarbageIsEmpty ==
    (lastOp.name = "init" /\ localStorage.kind \in { "absent", "garbage" })
        => /\ mounted
           /\ Len(questions) = 0
           /\ expanded = NotExpanded
           /\ ~showForm

\* C10: every successful commitEdit, create or update, ends with nothing
\* expanded, the new-question form closed and the success message set.
C10_CommitEndsWithNoEditOpen ==
    [][(CommitStep /\ BufferValid)
          => /\ expanded' = NotExpanded
             /\ ~(showForm' \/ Len(questions') = 0)
             /\ successMessage' # Null]_vars

\* A question was created from the new-question form that "Add Question"
\* opened, and the form is closed again.
C10_Witness ==
    /\ lastOp.name = "handleSaveChanges"
    /\ BufferValid
    /\ successMessage = MsgAdded
    /\ uuidCount = 3
    /\ expanded = NotExpanded
    /\ ~showForm

\* C11: deleteQuestion(id) with an id that is not in the list (a second
\* delete of the same id, or any absent id) leaves questions and the stored
\* list unchanged and sets no error.
C11_DeleteOfAbsentIdIsNoOp ==
    [][(DeleteStep /\ lastOp'.id \notin Ids(questions))
          => /\ questions' = questions
             /\ StoredList' = StoredList
             /\ error' = error]_vars

\* C12: startNewQuestion, from every state, resets the buffer to the empty
\* defaults, opens the new-question form with nothing expanded, and leaves
\* questions and the store unchanged.
C12_AddResetsFromAnyState ==
    [][AddStep
          => /\ BufferFields' = DefaultBuffer
             /\ showForm' \/ Len(questions') = 0
             /\ expanded' = NotExpanded
             /\ questions' = questions
             /\ localStorage' = localStorage]_vars

\* C12 as amended: startNewQuestion is offered while nothing is expanded;
\* it leaves questions and the store unchanged; when the list is non-empty
\* or no error is set it resets the buffer and opens the new-question form,
\* and when the list is empty and an error is set it changes nothing.
C12_AddResetsUnlessEmptyListWithError ==
    [][AddStep
          => /\ expanded = NotExpanded
             /\ questions' = questions
             /\ localStorage' = localStorage
             /\ IF Len(questions) # 0 \/ error = Null
                THEN /\ BufferFields' = DefaultBuffer
                     /\ showForm'
                     /\ expanded' = NotExpanded
                ELSE /\ BufferFields' = BufferFields
                     /\ showForm' = showForm
                     /\ expanded' = expanded
                     /\ error' = error]_vars

\* "Add Question" was clicked with an empty list and the error of a refused
\* commit on screen: the buffer still holds the refused title.
C12_Witness ==
    /\ lastOp.name = "handleAddQuestionClick"
    /\ Len(questions) = 0
    /\ error = MsgRequired
    /\ questionTitle = << " " >>
    /\ ~showForm

\* C13: in every step the ids of the list, in their order, stay as they
\* are, or a successful commitEdit with nothing expanded appends one id
\* that was not in the list, or a delete of id removes exactly id.
C13_IdsChangeOnlyByCreateAndDelete ==
    [][\/ IdSeq(questions') = IdSeq(questions)
       \/ /\ CommitStep /\ BufferValid /\ expanded = NotExpanded
          /\ Len(questions') = Len(questions) + 1
          /\ questions'[Len(questions')].id \notin Ids(questions)
          /\ IdSeq(questions') =
                 Append(IdSeq(questions), questions'[Len(questions')].id)
       \/ /\ lastOp'.name \in { "handleDeleteQuestion", "deleteClick" }
          /\ lastOp'.id \in Ids(questions)
          /\ IdSeq(questions') =
                 SelectSeq(IdSeq(questions), LAMBDA i : i # lastOp'.id)]_vars

\* A question was created after the two loaded ones and the first one was
\* then deleted.
C13_Witness ==
    /\ lastOp.name = "handleDeleteQuestion"
    /\ lastOp.id = 1
    /\ IdSeq(questions) = << 2, 3 >>

\* C14: after a question is created by a successful commitEdit, load()
\* from the store returns a list that holds that question, identical to the
\* one in memory; and load() of the text of the list in memory returns that
\* list.  (Stated for a commit whose setItem did not throw.)
C14_CreatedQuestionIsReloaded ==
    (/\ lastOp.name = "handleSaveChanges"
     /\ lastOp.expanded = NotExpanded
     /\ BufferValid
     /\ WritesOk(lastOp))
        => /\ \E i \in 1..Len(StoredList) :
                  StoredList[i] = questions[Len(questions)]
           /\ JSONparse(JSONstringify(questions)) = questions

\* C15: startEditQuestion(id) for a question of the list sets expanded to
\* id and every buffer field to the value the question holds (helper text
\* and additional fields empty when absent), closes the new-question form,
\* and leaves questions and the store unchanged.
C15_EditLoadsQuestionIntoBuffer ==
    [][EditStep
          => LET q == QuestionOf(questions, lastOp'.id)
             IN  /\ expanded' = lastOp'.id
                 /\ questionTitle' = q.title
                 /\ questionType' = q.type
                 /\ isRequired' = q.required
                 /\ helperText' = Optional(q, "helperText", EmptyString)
                 /\ additionalFields' =
                        Optional(q, "additionalFields", EmptyObject)
                 /\ ~showForm'
                 /\ questions' = questions
                 /\ localStorage' = localStorage]_vars

\* The question without optional properties was opened while the
\* new-question form held a typed title and the required flag.
C15_Witness ==
    /\ lastOp.name = "handleAccordionChange"
    /\ lastOp.id = 2
    /\ lastOp.expanded = NotExpanded
    /\ lastOp.buffer.title # EmptyString
    /\ ~lastOp.buffer.required
    /\ expanded = 2
    /\ isRequired
    /\ helperText = EmptyString
    /\ additionalFields = EmptyObject

C17_TypeChangeKeepsAdditionalFields ==
    [][/\ TypeStep
          => /\ additionalFields' = additionalFields
             /\ questions' = questions
       /\ (CommitStep /\ BufferValid /\ questionType # NUMBER)
          => \E i \in 1..Len(questions') :
                 /\ IF expanded = NotExpanded
                    THEN i = Len(questions')
                    ELSE questions'[i].id = expanded
                 /\ questions'[i].type = questionType
                 /\ questions'[i].additionalFields = additionalFields]_vars

\* The number question got a minimum, was turned into a text question and
\* saved: the text question of the list carries the minimum.
C17_Witness ==
    /\ CommitCalled(lastOp)
    /\ lastOp.expanded = 2
    /\ successMessage = MsgUpdated
    /\ Len(questions) = 2
    /\ questions[2].type = TEXT
    /\ "additionalFields" \in DOMAIN questions[2]
    /\ "min" \in DOMAIN questions[2].additionalFields

\* This step closes the error notification, and this one the success
\* notification.
DismissErrorStep == steps' = steps /\ lastOp'.name = "dismissError"
DismissSuccessStep == steps' = steps /\ lastOp'.name = "dismissSuccess"

\* C18: under the timers of the notifications, an error that is set is
\* eventually cleared and so is a success message; the step that clears
\* one of them changes nothing else: questions, the store, the buffer,
\* expanded and the other message stay the same.
C18_NotificationsAreCleared ==
    /\ (error # Null) ~> (error = Null)
    /\ (successMessage # Null) ~> (successMessage = Null)
    /\ [][/\ DismissErrorStep
             => /\ error' = Null
                /\ successMessage' = successMessage
          /\ DismissSuccessStep
             => /\ successMessage' = Null
                /\ error' = error
          /\ (DismissErrorStep \/ DismissSuccessStep)
             => /\ questions' = questions
                /\ localStorage' = localStorage
                /\ BufferFields' = BufferFields
                /\ expanded' = expanded
                /\ showForm' = showForm]_vars

\* Both notifications were open and the error one was closed: the success
\* message is still there, and so is the blank title that caused the error.
C18_Witness ==
    /\ lastOp.name = "dismissError"
    /\ error = Null
    /\ successMessage # Null
    /\ questionTitle = << " " >>

\* C19: in every state, an expanded that is a question id is the id of a
\* question of the list.
C19_ExpandedIsInQuestions ==
    (mounted /\ expanded # NotExpanded) => expanded \in Ids(questions)

\* C20: after a click on the delete button of the expanded question while
\* the buffer is valid (both handlers run, every setItem succeeds), the
\* question is neither in the list in memory nor in the stored list.
C20_DeleteClickOnExpandedRemoves ==
    [][(/\ steps' = steps + 1
        /\ lastOp'.name = "deleteClick"
        /\ lastOp'.id = expanded
        /\ BufferValid
        /\ WritesOk(lastOp'))
          => /\ lastOp'.id \notin Ids(questions')
             /\ lastOp'.id \notin Ids(StoredList')]_vars

\* This step is a delete, by the handler alone or by a click on the delete
\* button, that leaves the list empty.
EmptyingStep ==
    /\ steps' = steps + 1
    /\ lastOp'.name \in { "handleDeleteQuestion", "deleteClick" }
    /\ Len(questions') = 0

\* C21: an operation that leaves questions empty ends, the effect of the
\* list change having run, with expanded at none and the buffer at the
\* empty defaults; and in every state an empty list has no expanded
\* question.
C21_EmptyListResetsEdit ==
    /\ [](mounted /\ Len(questions) = 0 => expanded = NotExpanded)
    /\ [][EmptyingStep
             => /\ expanded' = NotExpanded
                /\ BufferFields' = DefaultBuffer]_vars

\* The delete button of the last question was clicked while it was
\* collapsed and the new-question form held a title: the click also asked
\* to expand the question, and the effect left nothing expanded.
C21_Witness ==
    /\ lastOp.name = "deleteClick"
    /\ lastOp.expanded = NotExpanded
    /\ lastOp.buffer.title # EmptyString
    /\ Len(questions) = 0
    /\ expanded = NotExpanded
    /\ BufferFields = DefaultBuffer

====
